---- MODULE Spec2Model ----
(***************************************************************************)
(* Attendance tracking core of UEhub (backend/app/modules/timeclock).      *)
(*                                                                         *)
(* The persistent state is the three tables of models.py (job sites, time  *)
(* entries, audit rows) and the stream of published events.  Each service  *)
(* method of service.py is one action; the repository method it calls is   *)
(* an operator that is given the row and returns the row it commits.  The  *)
(* repository methods are coroutines; the model takes every call of the    *)
(* service to be awaited, i.e. the service sees the value the repository   *)
(* method returns.                                                         *)
(*                                                                         *)
(* Conventions                                                             *)
(*   - ids: a row's id is its position in its table (uuid4, never reused). *)
(*   - time: datetime.utcnow() is the variable now, counted in ticks; the  *)
(*     wall clock may be stepped back (ClockSkew).                         *)
(*   - coordinates: integers in units of 0.001 degree.                     *)
(*   - columns no operation reads (description, address, notes, the four   *)
(*     clock_in/clock_out_location columns, created_at, updated_at,        *)
(*     ip_address, user_agent) are left out.                               *)
(***************************************************************************)
EXTENDS Integers, Sequences, FiniteSets, TLC

\* ---------------------------------------------------------------- bounds
MaxSites == 2
MaxEntries == 2
MaxEvents == 4
MaxTime == 1
MaxReqs == 2

\* ------------------------------------------------------------- constants
\* Python None in an integer-valued column or request field.
NULL == -1000000
\* None in a user-reference column.
NoUser == "none"

Users == {"u1", "u2"}
Approvers == {"a1"}
Names == {"A"}

\* JobSiteBase.radius_meters default.
DefaultRadius == 100

\* jobSites, timeEntries, audits: the tables timeclock_job_site,
\* timeclock_time_entry and timeclock_time_entry_audit, in insertion order.
\* events: what was published on the event bus, in order.
\* now: datetime.utcnow().
\* last: the last call of a service method that returned or raised, with its
\* arguments and its outcome.
\* reqs: the requests in flight, each with its position and its locals.
VARIABLES jobSites, timeEntries, audits, events, now, last, reqs

vars == <<jobSites, timeEntries, audits, events, now, last, reqs>>


\* ------------------------------------------------------------ data model
\* No row: the None a repository query returns (ids start at 1).
NoRow == 0

\* The id "temp" that create_job_site derives the first token from.
TempId == 0

\* A token no job site was ever issued.
BogusToken == <<0, "bogus", 0>>

\* No token: the call takes none.
NoToken == <<0, "", 0>>

\* Mutant: the token does not depend on the id of the job site.
generate_qr_code_data_NoId(name, id) == <<TempId, name, now>>

\* _generate_qr_code_data: "UEHUB-{id}-{sha256(UE_HUB_JOBSITE:id:name:ts)[:16]}".
\* The truncated hash is taken to be injective on the inputs of the model, so
\* the token is the triple it is derived from.
generate_qr_code_data(name, id) == <<id, name, now>>

\* bool(Decimal): None and Decimal(0) are falsy.
Truthy(d) == d # NULL /\ d # 0

\* bool(datetime): only None is falsy.
IsSet(t) == t # NULL

\* Squared metres per squared coordinate unit: (6371000 * pi / 180 / 1000)^2.
MetersPerUnitSq == 12364

\* Mutant: the distance of a point from itself is about 10 m, not 0.
calculate_distance_sq_Biased(lat1, lng1, lat2, lng2) ==
    MetersPerUnitSq * ((lat2 - lat1) * (lat2 - lat1) + (lng2 - lng1) * (lng2 - lng1)) + 101

\* _calculate_distance, squared.  For displacements of a few thousandths of
\* a degree at the equator the haversine distance is R * sqrt(dlat^2 +
\* dlng^2) (in radians) to within 10^-6, which is what is computed here.
calculate_distance_sq(lat1, lng1, lat2, lng2) ==
    MetersPerUnitSq * ((lat2 - lat1) * (lat2 - lat1) + (lng2 - lng1) * (lng2 - lng1))

\* The geofence test of clock_in and clock_out: TRUE when the call is
\* rejected as too far.
GeofenceRejects(lat, lng, site) ==
    /\ Truthy(lat) /\ Truthy(lng)
    /\ Truthy(site.latitude) /\ Truthy(site.longitude)
    /\ calculate_distance_sq(lat, lng, site.latitude, site.longitude)
         > site.radius_meters * site.radius_meters

SiteIds == 1..Len(jobSites)
EntryIds == 1..Len(timeEntries)

\* Mutant: the lookup forgets the is_active filter.
get_job_site_by_qr_code_AnyStatus(tok) ==
    LET S == {i \in 1..Len(jobSites) : jobSites[i].qr_code_data = tok}
    IN IF S = {} THEN 0 ELSE CHOOSE i \in S : TRUE

\* TimeclockRepository.get_job_site_by_qr_code: the active site holding the
\* token (the token column is unique), else None.
get_job_site_by_qr_code(tok) ==
    LET S == {i \in SiteIds : jobSites[i].qr_code_data = tok /\ jobSites[i].is_active}
    IN IF S = {} THEN NoRow ELSE CHOOSE i \in S : TRUE

\* The rows TimeclockRepository.get_active_time_entry selects.
ActiveRows(u) ==
    {i \in EntryIds : timeEntries[i].user_id = u /\ timeEntries[i].clock_out_time = NULL}

\* TimeclockRepository.get_time_entry.
get_time_entry(id) == IF id \in EntryIds THEN id ELSE NoRow

\* Mutant: the new row is inserted already closed.
create_time_entry_Closed(u, site, t) ==
    [user_id |-> u, job_site_id |-> site,
     clock_in_time |-> t, clock_out_time |-> t,
     break_start_time |-> NULL, break_end_time |-> NULL,
     total_hours |-> NULL, break_hours |-> NULL,
     is_approved |-> FALSE, approved_by_id |-> NoUser, approved_at |-> NULL]

\* The row TimeclockRepository.create_time_entry inserts.
create_time_entry(u, site, t) ==
    [user_id |-> u, job_site_id |-> site,
     clock_in_time |-> t, clock_out_time |-> NULL,
     break_start_time |-> NULL, break_end_time |-> NULL,
     total_hours |-> NULL, break_hours |-> NULL,
     is_approved |-> FALSE, approved_by_id |-> NoUser, approved_at |-> NULL]

\* The row TimeclockRepository.create_audit_log inserts; an empty dict is
\* stored as NULL, which the empty record stands for.
create_audit_log(id, action, old, new, by) ==
    [time_entry_id |-> id, action |-> action,
     old_values |-> old, new_values |-> new, performed_by_id |-> by]

Event(topic, id, by) == [topic |-> topic, id |-> id, by |-> by]

Call(op, u, entry, tok, site, lat, lng, result) ==
    [op |-> op, user |-> u, entry |-> entry, tok |-> tok, site |-> site,
     lat |-> lat, lng |-> lng, result |-> result]

Reqs == 1..MaxReqs

\* A request slot: pc is the persistence call the handler is suspended
\* before; site and entry are the handler's locals.
Req(pc, u, tok, lat, lng, site, entry, result) ==
    [pc |-> pc, user |-> u, tok |-> tok, lat |-> lat, lng |-> lng,
     site |-> site, entry |-> entry, result |-> result]

IdleReq == Req("idle", NoUser, BogusToken, NULL, NULL, NoRow, NoRow, "none")

\* The budget of the model: a call that persists something needs room.
Room == Len(events) < MaxEvents

Init ==
    /\ jobSites = <<>>
    /\ timeEntries = <<>>
    /\ audits = <<>>
    /\ events = <<>>
    /\ now = 0
    /\ last = Call("none", NoUser, NoRow, NoToken, NoRow, NULL, NULL, "none")
    /\ reqs = [r \in Reqs |-> IdleReq]

\* ------------------------------------------------------------ clock
\* Wall-clock seconds per tick of now.
SecondsPerTick == 600

\* datetime.utcnow() moves on.
Tick ==
    /\ now < MaxTime
    /\ now' = now + 1
    /\ UNCHANGED <<jobSites, timeEntries, audits, events, last, reqs>>

\* The wall clock is stepped back (utcnow is not monotonic).
ClockSkew ==
    /\ now > 0
    /\ now' \in 0..(now - 1)
    /\ UNCHANGED <<jobSites, timeEntries, audits, events, last, reqs>>

\* ------------------------------------------------------------ job sites
\* The coordinates of the job sites and of the requests of Spec: every site
\* has a position, a request has none or one 111 m north of it.
SiteCoords == {<<1, 1>>}
ReqCoords == {<<NULL, NULL>>, <<2, 1>>}

\* The coordinates of SpecGeo: absent ones, and zeros, on either side.
GeoSiteCoords == {<<NULL, NULL>>, <<1, 1>>, <<0, 1>>, <<1, NULL>>}
GeoReqCoords == {<<NULL, NULL>>, <<1, 1>>, <<2, 1>>, <<0, 1>>, <<1, NULL>>}

\* The JobSiteUpdate bodies of the model (exclude_unset: only the fields sent).
Patches ==
    {[is_active |-> FALSE], [is_active |-> TRUE], [radius_meters |-> 1000]}

\* TimeclockService.create_job_site with repository.create_job_site: the row
\* is inserted under the token of the id "temp" and then given the token of
\* its actual id.
CreateJobSite(name, lat, lng, by) ==
    LET id == Len(jobSites) + 1
        row == [name |-> name, latitude |-> lat, longitude |-> lng,
                radius_meters |-> DefaultRadius,
                qr_code_data |-> generate_qr_code_data(name, TempId),
                is_active |-> TRUE, created_by_id |-> by]
    IN /\ Room
       /\ Len(jobSites) < MaxSites
       /\ jobSites' = Append(jobSites,
                             [row EXCEPT !.qr_code_data = generate_qr_code_data(name, id)])
       /\ events' = Append(events, Event("timeclock.job_site.created", id, by))
       /\ last' = Call("create_job_site", by, NoRow, NoToken, id, lat, lng, "ok")
       /\ UNCHANGED <<timeEntries, audits, now, reqs>>

\* TimeclockRepository.update_job_site: setattr for every field sent.
update_job_site(site, patch) ==
    [f \in DOMAIN site |-> IF f \in DOMAIN patch THEN patch[f] ELSE site[f]]

\* TimeclockService.update_job_site.
UpdateJobSite(id, patch, by) ==
    IF id \in SiteIds
    THEN /\ Room
         /\ jobSites' = [jobSites EXCEPT ![id] = update_job_site(jobSites[id], patch)]
         /\ events' = Append(events, Event("timeclock.job_site.updated", id, by))
         /\ last' = Call("update_job_site", by, NoRow, NoToken, id, NULL, NULL, "ok")
         /\ UNCHANGED <<timeEntries, audits, now, reqs>>
    ELSE /\ last' = Call("update_job_site", by, NoRow, NoToken, id, NULL, NULL, "NotFound")
         /\ UNCHANGED <<jobSites, timeEntries, audits, events, now, reqs>>

\* Mutant: the soft delete also wipes the position of the site.
delete_job_site_WipesPosition(site) ==
    [site EXCEPT !.is_active = FALSE, !.latitude = NULL, !.longitude = NULL]

\* TimeclockRepository.delete_job_site: soft delete.
delete_job_site(site) == [site EXCEPT !.is_active = FALSE]

\* TimeclockService.delete_job_site.
DeleteJobSite(id, by) ==
    IF id \in SiteIds
    THEN /\ Room
         /\ jobSites' = [jobSites EXCEPT ![id] = delete_job_site(jobSites[id])]
         /\ events' = Append(events, Event("timeclock.job_site.deleted", id, by))
         /\ last' = Call("delete_job_site", by, NoRow, NoToken, id, NULL, NULL, "ok")
         /\ UNCHANGED <<timeEntries, audits, now, reqs>>
    ELSE /\ last' = Call("delete_job_site", by, NoRow, NoToken, id, NULL, NULL, "NotFound")
         /\ UNCHANGED <<jobSites, timeEntries, audits, events, now, reqs>>

\* ------------------------------------------------------------ clock in
\* Mutant: the check for an open entry is missing.
clock_in_result_NoActiveCheck(u, tok, lat, lng) ==
    LET site == get_job_site_by_qr_code(tok)
    IN IF site = NoRow THEN "InvalidToken"
       ELSE IF GeofenceRejects(lat, lng, jobSites[site]) THEN "OutOfRange"
       ELSE "ok"

\* Mutant: only an open entry at the scanned job site blocks the clock-in.
clock_in_result_PerSite(u, tok, lat, lng) ==
    LET site == get_job_site_by_qr_code(tok)
    IN IF site = NoRow THEN "InvalidToken"
       ELSE IF \E i \in ActiveRows(u) : timeEntries[i].job_site_id = site
            THEN "AlreadyClockedIn"
       ELSE IF GeofenceRejects(lat, lng, jobSites[site]) THEN "OutOfRange"
       ELSE "ok"

\* The checks of TimeclockService.clock_in, in order.  get_active_time_entry
\* ends in scalar_one_or_none, which raises when more than one row matches.
clock_in_result(u, tok, lat, lng) ==
    LET site == get_job_site_by_qr_code(tok)
    IN IF site = NoRow THEN "InvalidToken"
       ELSE IF Cardinality(ActiveRows(u)) > 1 THEN "MultipleResultsFound"
       ELSE IF ActiveRows(u) # {} THEN "AlreadyClockedIn"
       ELSE IF GeofenceRejects(lat, lng, jobSites[site]) THEN "OutOfRange"
       ELSE "ok"

\* TimeclockService.clock_in.
ClockIn(u, tok, lat, lng) ==
    LET site == get_job_site_by_qr_code(tok)
        res == clock_in_result(u, tok, lat, lng)
        id == Len(timeEntries) + 1
    IN IF res = "ok"
       THEN /\ Room
            /\ Len(timeEntries) < MaxEntries
            /\ timeEntries' = Append(timeEntries, create_time_entry(u, site, now))
            /\ audits' = Append(audits, create_audit_log(id, "clock_in", <<>>,
                                                         [clock_in_time |-> now], u))
            /\ events' = Append(events, Event("timeclock.clocked_in", id, u))
            /\ last' = Call("clock_in", u, id, tok, site, lat, lng, "ok")
            /\ UNCHANGED <<jobSites, now, reqs>>
       ELSE /\ last' = Call("clock_in", u, NoRow, tok, site, lat, lng, res)
            /\ UNCHANGED <<jobSites, timeEntries, audits, events, now, reqs>>

\* ------------------------------------------------------------ clock out
\* A value stored in a Numeric(5, 2) column, in hundredths of an hour:
\* seconds / 3600 rounded to two decimals, half away from zero.
Numeric52(seconds) ==
    IF seconds >= 0 THEN (seconds + 18) \div 36 ELSE 0 - ((18 - seconds) \div 36)

\* Mutant: the ownership check is missing.
clock_out_result_NoOwnerCheck(u, id, lat, lng) ==
    IF get_time_entry(id) = NoRow THEN "NotFound"
    ELSE IF IsSet(timeEntries[id].clock_out_time) THEN "AlreadyClockedOut"
    ELSE IF GeofenceRejects(lat, lng, jobSites[timeEntries[id].job_site_id])
         THEN "OutOfRange"
    ELSE "ok"

\* Mutant: clock_out looks for the job site among the active ones.
clock_out_result_ActiveSiteOnly(u, id, lat, lng) ==
    IF get_time_entry(id) = NoRow THEN "NotFound"
    ELSE IF timeEntries[id].user_id # u THEN "Forbidden"
    ELSE IF IsSet(timeEntries[id].clock_out_time) THEN "AlreadyClockedOut"
    ELSE IF ~jobSites[timeEntries[id].job_site_id].is_active THEN "NotFound"
    ELSE IF GeofenceRejects(lat, lng, jobSites[timeEntries[id].job_site_id])
         THEN "OutOfRange"
    ELSE "ok"

\* The checks of TimeclockService.clock_out, in order.
clock_out_result(u, id, lat, lng) ==
    IF get_time_entry(id) = NoRow THEN "NotFound"
    ELSE IF timeEntries[id].user_id # u THEN "Forbidden"
    ELSE IF IsSet(timeEntries[id].clock_out_time) THEN "AlreadyClockedOut"
    ELSE IF GeofenceRejects(lat, lng, jobSites[timeEntries[id].job_site_id])
         THEN "OutOfRange"
    ELSE "ok"

\* Mutant: the hours are stored but the clock-out timestamp is not.
repo_clock_out_KeepsOpen(e, t) ==
    [e EXCEPT !.total_hours = Numeric52((t - e.clock_in_time) * SecondsPerTick)]

\* TimeclockRepository.clock_out on an open row: the row it commits.
repo_clock_out(e, t) ==
    LET total_seconds == (t - e.clock_in_time) * SecondsPerTick
        break_seconds ==
            IF IsSet(e.break_start_time) /\ IsSet(e.break_end_time)
            THEN (e.break_end_time - e.break_start_time) * SecondsPerTick
            ELSE 0
    IN [e EXCEPT !.clock_out_time = t,
                 !.total_hours = Numeric52(total_seconds - break_seconds),
                 !.break_hours = IF break_seconds > 0 THEN Numeric52(break_seconds)
                                 ELSE NULL]

\* TimeclockService.clock_out.
ClockOut(u, id, lat, lng) ==
    LET res == clock_out_result(u, id, lat, lng)
    IN IF res = "ok"
       THEN LET updated == repo_clock_out(timeEntries[id], now)
            IN /\ Room
               /\ timeEntries' = [timeEntries EXCEPT ![id] = updated]
               /\ audits' = Append(audits,
                      create_audit_log(id, "clock_out", [clock_out_time |-> NULL],
                                       [clock_out_time |-> now,
                                        total_hours |-> updated.total_hours], u))
               /\ events' = Append(events, Event("timeclock.clocked_out", id, u))
               /\ last' = Call("clock_out", u, id, NoToken, updated.job_site_id, lat, lng, "ok")
               /\ UNCHANGED <<jobSites, now, reqs>>
       ELSE /\ last' = Call("clock_out", u, id, NoToken, NoRow, lat, lng, res)
            /\ UNCHANGED <<jobSites, timeEntries, audits, events, now, reqs>>

\* ------------------------------------------------------------ breaks
\* Mutant: a break can be started on a closed entry.
can_start_break_IgnoreClosed(e) == ~IsSet(e.break_start_time)

\* Mutant: a break that is already running does not block a new one.
can_start_break_IgnoreBreak(e) == ~IsSet(e.clock_out_time)

\* The guard of TimeclockRepository.start_break ("if not time_entry or
\* time_entry.clock_out_time or time_entry.break_start_time: return None").
can_start_break(e) == ~(IsSet(e.clock_out_time) \/ IsSet(e.break_start_time))

\* The row TimeclockRepository.start_break commits.
repo_start_break(e) == [e EXCEPT !.break_start_time = now]

\* Mutant: start_break does not test whose entry it is.
start_break_result_NoOwnerCheck(u, id) ==
    IF get_time_entry(id) = NoRow THEN "NotFoundOrDenied"
    ELSE IF ~can_start_break(timeEntries[id]) THEN "CannotStartBreak"
    ELSE "ok"

\* The checks of TimeclockService.start_break, in order.
start_break_result(u, id) ==
    IF get_time_entry(id) = NoRow \/ timeEntries[id].user_id # u THEN "NotFoundOrDenied"
    ELSE IF ~can_start_break(timeEntries[id]) THEN "CannotStartBreak"
    ELSE "ok"

\* TimeclockService.start_break.
StartBreak(u, id) ==
    LET res == start_break_result(u, id)
    IN IF res = "ok"
       THEN /\ Room
            /\ timeEntries' = [timeEntries EXCEPT ![id] = repo_start_break(timeEntries[id])]
            /\ events' = Append(events, Event("timeclock.break_started", id, u))
            /\ last' = Call("start_break", u, id, NoToken, NoRow, NULL, NULL, "ok")
            /\ UNCHANGED <<jobSites, audits, now, reqs>>
       ELSE /\ last' = Call("start_break", u, id, NoToken, NoRow, NULL, NULL, res)
            /\ UNCHANGED <<jobSites, timeEntries, audits, events, now, reqs>>

\* Mutant: a break that was never started can be ended.
can_end_break_NoStartCheck(e) ==
    ~(IsSet(e.clock_out_time) \/ IsSet(e.break_end_time))

\* The guard of TimeclockRepository.end_break.
can_end_break(e) ==
    ~(IsSet(e.clock_out_time) \/ ~IsSet(e.break_start_time) \/ IsSet(e.break_end_time))

\* The row TimeclockRepository.end_break commits.
repo_end_break(e) == [e EXCEPT !.break_end_time = now]

\* The checks of TimeclockService.end_break, in order.
end_break_result(u, id) ==
    IF get_time_entry(id) = NoRow \/ timeEntries[id].user_id # u THEN "NotFoundOrDenied"
    ELSE IF ~can_end_break(timeEntries[id]) THEN "CannotEndBreak"
    ELSE "ok"

\* TimeclockService.end_break.
EndBreak(u, id) ==
    LET res == end_break_result(u, id)
    IN IF res = "ok"
       THEN /\ Room
            /\ timeEntries' = [timeEntries EXCEPT ![id] = repo_end_break(timeEntries[id])]
            /\ events' = Append(events, Event("timeclock.break_ended", id, u))
            /\ last' = Call("end_break", u, id, NoToken, NoRow, NULL, NULL, "ok")
            /\ UNCHANGED <<jobSites, audits, now, reqs>>
       ELSE /\ last' = Call("end_break", u, id, NoToken, NoRow, NULL, NULL, res)
            /\ UNCHANGED <<jobSites, timeEntries, audits, events, now, reqs>>

\* ------------------------------------------------------------ approval
\* Mutant: an approval that is already stamped is kept (first approver wins).
repo_approve_time_entry_KeepFirst(e, by, approved) ==
    IF e.approved_by_id # NoUser THEN e
    ELSE [e EXCEPT !.is_approved = approved, !.approved_by_id = by, !.approved_at = now]

\* The row TimeclockRepository.approve_time_entry commits.
repo_approve_time_entry(e, by, approved) ==
    [e EXCEPT !.is_approved = approved, !.approved_by_id = by, !.approved_at = now]

\* Mutant: the audit row of an approval overwrites the newest audit row
\* instead of being added to the table.
ApproveTimeEntry_RewritesAudit(id, approved, by) ==
    IF get_time_entry(id) # NoRow
    THEN /\ Room
         /\ timeEntries' = [timeEntries EXCEPT
                              ![id] = repo_approve_time_entry(timeEntries[id], by, approved)]
         /\ audits' = [audits EXCEPT ![Len(audits)] =
                create_audit_log(id, IF approved THEN "approve" ELSE "reject",
                                 [is_approved |-> ~approved],
                                 [is_approved |-> approved], by)]
         /\ events' = Append(events,
                Event(IF approved THEN "timeclock.time_entry.approved"
                      ELSE "timeclock.time_entry.rejected", id, by))
         /\ last' = Call(IF approved THEN "approve" ELSE "reject", by, id, NoToken,
                         NoRow, NULL, NULL, "ok")
         /\ UNCHANGED <<jobSites, now, reqs>>
    ELSE /\ last' = Call(IF approved THEN "approve" ELSE "reject", by, id, NoToken,
                         NoRow, NULL, NULL, "NotFound")
         /\ UNCHANGED <<jobSites, timeEntries, audits, events, now, reqs>>

\* TimeclockService.approve_time_entry.
ApproveTimeEntry(id, approved, by) ==
    IF get_time_entry(id) # NoRow
    THEN /\ Room
         /\ timeEntries' = [timeEntries EXCEPT
                              ![id] = repo_approve_time_entry(timeEntries[id], by, approved)]
         /\ audits' = Append(audits,
                create_audit_log(id, IF approved THEN "approve" ELSE "reject",
                                 [is_approved |-> ~approved],
                                 [is_approved |-> approved], by))
         /\ events' = Append(events,
                Event(IF approved THEN "timeclock.time_entry.approved"
                      ELSE "timeclock.time_entry.rejected", id, by))
         /\ last' = Call(IF approved THEN "approve" ELSE "reject", by, id, NoToken,
                         NoRow, NULL, NULL, "ok")
         /\ UNCHANGED <<jobSites, now, reqs>>
    ELSE /\ last' = Call(IF approved THEN "approve" ELSE "reject", by, id, NoToken,
                         NoRow, NULL, NULL, "NotFound")
         /\ UNCHANGED <<jobSites, timeEntries, audits, events, now, reqs>>

\* ------------------------------------------------------------ requests
\* The tokens a caller presents: every token issued, and one never issued.
TokenInputs == {jobSites[i].qr_code_data : i \in SiteIds} \cup {BogusToken}

\* The entry ids a caller names: every id issued, and one never issued.
EntryInputs == 0..Len(timeEntries)

\* The job-site ids an administrator names.
SiteInputs == 0..Len(jobSites)

Next ==
    \/ Tick
    \/ \E name \in Names, c \in SiteCoords, by \in Approvers :
          CreateJobSite(name, c[1], c[2], by)
    \/ \E id \in SiteInputs, patch \in Patches, by \in Approvers :
          UpdateJobSite(id, patch, by)
    \/ \E id \in SiteInputs, by \in Approvers : DeleteJobSite(id, by)
    \/ \E u \in Users, tok \in TokenInputs, c \in ReqCoords : ClockIn(u, tok, c[1], c[2])
    \/ \E u \in Users, id \in EntryInputs, c \in ReqCoords : ClockOut(u, id, c[1], c[2])
    \/ \E u \in Users, id \in EntryInputs : StartBreak(u, id)
    \/ \E u \in Users, id \in EntryInputs : EndBreak(u, id)
    \/ \E id \in EntryInputs, approved \in BOOLEAN, by \in Approvers :
          ApproveTimeEntry(id, approved, by)

Spec == Init /\ [][Next]_vars

\* ------------------------------------------------------------ geofence
\* The calls of SpecGeo: one user, job sites and requests with absent and
\* with zero coordinates.
NextGeo ==
    \/ \E c \in GeoSiteCoords : CreateJobSite("A", c[1], c[2], "a1")
    \/ \E tok \in TokenInputs, c \in GeoReqCoords : ClockIn("u1", tok, c[1], c[2])
    \/ \E id \in EntryInputs, c \in GeoReqCoords : ClockOut("u1", id, c[1], c[2])

SpecGeo == Init /\ [][NextGeo]_vars

\* ------------------------------------------------------------ concurrency
\* TimeclockService.clock_in as the event loop runs it: the handler is
\* suspended at each call of the repository and of the event bus, and the
\* handlers of other requests run in between.  Each action below is one such
\* call together with the code that follows it up to the next one.  (No
\* action of SpecConc changes a job-site row, so the row read by the first
\* query is the row the geofence test sees.)
SetReq(r, v) == reqs' = [reqs EXCEPT ![r] = v]

Done(q, result) == [q EXCEPT !.pc = "done", !.result = result]

\* A request arrives; get_job_site_by_qr_code returns.
ClockInGetSite(r, u, tok, lat, lng) ==
    LET site == get_job_site_by_qr_code(tok)
        q == Req("get_active_time_entry", u, tok, lat, lng, site, NoRow, "none")
    IN /\ reqs[r].pc = "idle"
       /\ SetReq(r, IF site = NoRow THEN Done(q, "InvalidToken") ELSE q)
       /\ UNCHANGED <<jobSites, timeEntries, audits, events, now, last>>

\* get_active_time_entry returns; the geofence test follows.
ClockInGetActive(r) ==
    LET q == reqs[r]
    IN /\ q.pc = "get_active_time_entry"
       /\ SetReq(r, IF Cardinality(ActiveRows(q.user)) > 1
                    THEN Done(q, "MultipleResultsFound")
                    ELSE IF ActiveRows(q.user) # {} THEN Done(q, "AlreadyClockedIn")
                    ELSE IF GeofenceRejects(q.lat, q.lng, jobSites[q.site])
                         THEN Done(q, "OutOfRange")
                    ELSE [q EXCEPT !.pc = "create_time_entry"])
       /\ UNCHANGED <<jobSites, timeEntries, audits, events, now, last>>

\* create_time_entry commits the new row.
ClockInCreateEntry(r) ==
    LET q == reqs[r]
    IN /\ q.pc = "create_time_entry"
       /\ Len(timeEntries) < MaxEntries
       /\ timeEntries' = Append(timeEntries, create_time_entry(q.user, q.site, now))
       /\ SetReq(r, [q EXCEPT !.pc = "create_audit_log", !.entry = Len(timeEntries) + 1])
       /\ UNCHANGED <<jobSites, audits, events, now, last>>

\* create_audit_log commits the audit row.
ClockInCreateAudit(r) ==
    LET q == reqs[r]
    IN /\ q.pc = "create_audit_log"
       /\ audits' = Append(audits, create_audit_log(q.entry, "clock_in", <<>>,
                              [clock_in_time |-> timeEntries[q.entry].clock_in_time],
                              q.user))
       /\ SetReq(r, [q EXCEPT !.pc = "publish"])
       /\ UNCHANGED <<jobSites, timeEntries, events, now, last>>

\* event_bus.publish returns; the handler returns the entry.
ClockInPublish(r) ==
    LET q == reqs[r]
    IN /\ q.pc = "publish"
       /\ Room
       /\ events' = Append(events, Event("timeclock.clocked_in", q.entry, q.user))
       /\ SetReq(r, Done(q, "ok"))
       /\ UNCHANGED <<jobSites, timeEntries, audits, now, last>>

NextConc ==
    \/ \E name \in Names, c \in SiteCoords, by \in Approvers :
          CreateJobSite(name, c[1], c[2], by)
    \/ \E r \in Reqs, u \in Users, tok \in TokenInputs, c \in ReqCoords :
          ClockInGetSite(r, u, tok, c[1], c[2])
    \/ \E r \in Reqs : ClockInGetActive(r)
    \/ \E r \in Reqs : ClockInCreateEntry(r)
    \/ \E r \in Reqs : ClockInCreateAudit(r)
    \/ \E r \in Reqs : ClockInPublish(r)

SpecConc == Init /\ [][NextConc]_vars

\* ------------------------------------------------------------ failures
\* The persistence call a clock_in is suspended before raises (the commit of
\* create_time_entry or of create_audit_log fails, the connection is lost):
\* the exception leaves clock_in, and get_db_session rolls the session back.
\* Every repository method commits its own write, so the rollback undoes
\* nothing that an earlier call of the same request has committed.
ClockInWriteFails(r) ==
    LET q == reqs[r]
    IN /\ q.pc \in {"create_time_entry", "create_audit_log"}
       /\ SetReq(r, Done(q, "PersistenceError"))
       /\ UNCHANGED <<jobSites, timeEntries, audits, events, now, last>>

NextFail ==
    \/ \E name \in Names, c \in SiteCoords, by \in Approvers :
          CreateJobSite(name, c[1], c[2], by)
    \/ \E r \in Reqs, u \in Users, tok \in TokenInputs, c \in ReqCoords :
          ClockInGetSite(r, u, tok, c[1], c[2])
    \/ \E r \in Reqs : ClockInGetActive(r)
    \/ \E r \in Reqs : ClockInCreateEntry(r)
    \/ \E r \in Reqs : ClockInCreateAudit(r)
    \/ \E r \in Reqs : ClockInPublish(r)
    \/ \E r \in Reqs : ClockInWriteFails(r)

SpecFail == Init /\ [][NextFail]_vars

\* ------------------------------------------------------------ site creation
\* TimeclockService.create_job_site as the event loop runs it, suspended at
\* each commit.  First repository.create_job_site commits the row under the
\* token of the id "temp"; the column is unique, so the insert raises when a
\* row already holds that token.
CreateJobSiteInsert(r, name, lat, lng, by) ==
    LET id == Len(jobSites) + 1
        tok == generate_qr_code_data(name, TempId)
        q == Req("site_retoken", by, tok, lat, lng, id, NoRow, "none")
    IN /\ reqs[r].pc = "idle"
       /\ Len(jobSites) < MaxSites
       /\ IF \E i \in SiteIds : jobSites[i].qr_code_data = tok
          THEN /\ SetReq(r, Done([q EXCEPT !.site = NoRow], "IntegrityError"))
               /\ UNCHANGED jobSites
          ELSE /\ jobSites' = Append(jobSites,
                      [name |-> name, latitude |-> lat, longitude |-> lng,
                       radius_meters |-> DefaultRadius, qr_code_data |-> tok,
                       is_active |-> TRUE, created_by_id |-> by])
               /\ SetReq(r, q)
       /\ UNCHANGED <<timeEntries, audits, events, now, last>>

\* The row is given the token of its actual id, and that is committed.
CreateJobSiteRetoken(r) ==
    LET q == reqs[r]
    IN /\ q.pc = "site_retoken"
       /\ jobSites' = [jobSites EXCEPT ![q.site].qr_code_data =
                          generate_qr_code_data(jobSites[q.site].name, q.site)]
       /\ SetReq(r, [q EXCEPT !.pc = "site_publish"])
       /\ UNCHANGED <<timeEntries, audits, events, now, last>>

\* event_bus.publish returns; the handler returns the job site.
CreateJobSitePublish(r) ==
    LET q == reqs[r]
    IN /\ q.pc = "site_publish"
       /\ Room
       /\ events' = Append(events, Event("timeclock.job_site.created", q.site, q.user))
       /\ SetReq(r, Done(q, "ok"))
       /\ UNCHANGED <<jobSites, timeEntries, audits, now, last>>

NextCreate ==
    \/ Tick
    \/ \E r \in Reqs, name \in Names, c \in SiteCoords, by \in Approvers :
          CreateJobSiteInsert(r, name, c[1], c[2], by)
    \/ \E r \in Reqs : CreateJobSiteRetoken(r)
    \/ \E r \in Reqs : CreateJobSitePublish(r)
    \/ \E id \in SiteIds, patch \in Patches, by \in Approvers :
          UpdateJobSite(id, patch, by)

SpecCreate == Init /\ [][NextCreate]_vars

\* ------------------------------------------------------------ scan
\* TimeclockService.scan_qr_code: the QRCodeScanResult it returns (job_site
\* and active_time_entry_id as row ids, NoRow for None).
scan_qr_code(tok, u) ==
    LET site == get_job_site_by_qr_code(tok)
        active == IF ActiveRows(u) = {} THEN NoRow ELSE CHOOSE i \in ActiveRows(u) : TRUE
    IN IF site = NoRow
       THEN [job_site |-> NoRow, can_clock_in |-> FALSE, can_clock_out |-> FALSE,
             active_time_entry_id |-> NoRow]
       ELSE IF active # NoRow
       THEN IF timeEntries[active].job_site_id = site
            THEN [job_site |-> site, can_clock_in |-> FALSE, can_clock_out |-> TRUE,
                  active_time_entry_id |-> active]
            ELSE [job_site |-> site, can_clock_in |-> FALSE, can_clock_out |-> FALSE,
                  active_time_entry_id |-> active]
       ELSE [job_site |-> site, can_clock_in |-> TRUE, can_clock_out |-> FALSE,
             active_time_entry_id |-> NoRow]

\* The outcome of a scan as last records it.
ScanOutcome(res) ==
    IF res.job_site = NoRow THEN "invalid"
    ELSE IF res.can_clock_in THEN "can_clock_in"
    ELSE IF res.can_clock_out THEN "can_clock_out"
    ELSE "clock_out_first"

\* Mutant: a scan publishes an event.
Scan_Publishes(tok, u) ==
    LET res == scan_qr_code(tok, u)
    IN /\ Room
       /\ events' = Append(events, Event("timeclock.scanned", res.job_site, u))
       /\ last' = Call("scan", u, res.active_time_entry_id, tok, res.job_site,
                       NULL, NULL, ScanOutcome(res))
       /\ UNCHANGED <<jobSites, timeEntries, audits, now, reqs>>

\* POST /scan: TimeclockService.scan_qr_code, two queries and no write.
Scan(tok, u) ==
    LET res == scan_qr_code(tok, u)
    IN /\ last' = Call("scan", u, res.active_time_entry_id, tok, res.job_site,
                       NULL, NULL, ScanOutcome(res))
       /\ UNCHANGED <<jobSites, timeEntries, audits, events, now, reqs>>

\* The calls of SpecScan: one user who scans, clocks in and clocks out, at
\* job sites that are created and deactivated.
NextScan ==
    \/ \E name \in Names, c \in SiteCoords, by \in Approvers :
          CreateJobSite(name, c[1], c[2], by)
    \/ \E id \in SiteIds, by \in Approvers : DeleteJobSite(id, by)
    \/ \E tok \in TokenInputs : ClockIn("u1", tok, NULL, NULL)
    \/ \E id \in EntryIds : ClockOut("u1", id, NULL, NULL)
    \/ \E tok \in TokenInputs : Scan(tok, "u1")

SpecScan == Init /\ [][NextScan]_vars

\* ------------------------------------------------------------ roles
\* Python values of two types: a str and a list of str.
PyStr(x) == <<"str", x>>
PyList(xs) == <<"list", xs>>

\* Python a != b: values of different types are unequal.
PyNe(a, b) == a[1] # b[1] \/ a[2] # b[2]

\* The role in the token of each caller (auth_user.role: worker, admin,
\* superadmin).
RoleOf == [u1 |-> "worker", a1 |-> "admin", a2 |-> "superadmin"]
Callers == DOMAIN RoleOf

\* The argument the timeclock router gives require_role.
RequiredRole == PyList(<<"admin", "superadmin">>)

\* core.security.require_role(required_role), applied to the caller's role:
\* "if current_user.role != required_role: raise HTTPException(403)".
require_role(required_role, role) ==
    IF PyNe(PyStr(role), required_role) THEN "Forbidden" ELSE "ok"

\* A request that the role check refuses: the handler is not entered.
Refused(op, caller, entry, site) ==
    /\ last' = Call(op, caller, entry, NoToken, site, NULL, NULL, "Forbidden")
    /\ UNCHANGED <<jobSites, timeEntries, audits, events, now, reqs>>

\* POST /job-sites.
RouterCreateJobSite(caller, name, lat, lng) ==
    IF require_role(RequiredRole, RoleOf[caller]) = "ok"
    THEN CreateJobSite(name, lat, lng, caller)
    ELSE Refused("create_job_site", caller, NoRow, NoRow)

\* PUT /job-sites/{job_site_id}.
RouterUpdateJobSite(caller, id, patch) ==
    IF require_role(RequiredRole, RoleOf[caller]) = "ok"
    THEN UpdateJobSite(id, patch, caller)
    ELSE Refused("update_job_site", caller, NoRow, id)

\* DELETE /job-sites/{job_site_id}.
RouterDeleteJobSite(caller, id) ==
    IF require_role(RequiredRole, RoleOf[caller]) = "ok"
    THEN DeleteJobSite(id, caller)
    ELSE Refused("delete_job_site", caller, NoRow, id)

\* POST /time-entries/{time_entry_id}/approve.
RouterApproveTimeEntry(caller, id, approved) ==
    IF require_role(RequiredRole, RoleOf[caller]) = "ok"
    THEN ApproveTimeEntry(id, approved, caller)
    ELSE Refused(IF approved THEN "approve" ELSE "reject", caller, id, NoRow)

\* ------------------------------------------------------------ wall clock
\* The users whose role lets them approve, in SpecClock.
Reviewers == {"a1", "a2"}

\* The service starts on a database that holds one job site, created at
\* time 0 by a process that has gone since (the tables outlive the process,
\* the event bus and the requests do not).
InitClock ==
    /\ jobSites = <<[name |-> "A", latitude |-> 1, longitude |-> 1,
                     radius_meters |-> DefaultRadius,
                     qr_code_data |-> <<1, "A", 0>>,
                     is_active |-> TRUE, created_by_id |-> "a1"]>>
    /\ timeEntries = <<>>
    /\ audits = <<>>
    /\ events = <<>>
    /\ now = 0
    /\ last = Call("none", NoUser, NoRow, NoToken, NoRow, NULL, NULL, "none")
    /\ reqs = [r \in Reqs |-> IdleReq]

\* The calls of SpecClock: the life of the entries of one user at one job
\* site, without coordinates, under a wall clock that moves on and is
\* stepped back, with two reviewers.
NextClock ==
    \/ Tick
    \/ ClockSkew
    \/ \E tok \in TokenInputs : ClockIn("u1", tok, NULL, NULL)
    \/ \E id \in EntryInputs : ClockOut("u1", id, NULL, NULL)
    \/ \E id \in EntryInputs : StartBreak("u1", id)
    \/ \E id \in EntryInputs : EndBreak("u1", id)
    \/ \E id \in EntryInputs, approved \in BOOLEAN, by \in Reviewers :
          ApproveTimeEntry(id, approved, by)

SpecClock == InitClock /\ [][NextClock]_vars

\* The calls of SpecRole: the endpoints behind require_role, called by a
\* worker, an admin and a superadmin, and the clock-in and clock-out of the
\* worker (behind get_current_user alone), on a database that holds one job
\* site.
NextRole ==
    \/ Tick
    \/ \E caller \in Callers, name \in Names, c \in SiteCoords :
          RouterCreateJobSite(caller, name, c[1], c[2])
    \/ \E caller \in Callers, id \in SiteIds, patch \in Patches :
          RouterUpdateJobSite(caller, id, patch)
    \/ \E caller \in Callers, id \in SiteIds : RouterDeleteJobSite(caller, id)
    \/ \E caller \in Callers, id \in EntryIds, approved \in BOOLEAN :
          RouterApproveTimeEntry(caller, id, approved)
    \/ \E tok \in TokenInputs : ClockIn("u1", tok, NULL, NULL)
    \/ \E id \in EntryInputs : ClockOut("u1", id, NULL, NULL)

SpecRole == InitClock /\ [][NextRole]_vars

\* ------------------------------------------------------------ concurrent clock out
\* clock_out, start_break and end_break as the event loop runs them on one
\* entry.  Every request has a database session of its own
\* (get_db_session), so the TimeEntry object a handler holds is the row as
\* its last select returned it; the commit writes the columns the handler
\* assigned.  A handler is suspended at the select and at the commit of the
\* repository method, at create_audit_log and at publish.
\* A request slot of these handlers: row is the TimeEntry object of the
\* session, at the timestamp the handler took from utcnow.
EntryReq(pc, u, id, row, at, result) ==
    [pc |-> pc, user |-> u, entry |-> id, row |-> row, at |-> at, result |-> result]

\* TimeclockService.clock_out up to the call of repository.clock_out: the
\* checks on the entry it read, then clock_out_time = utcnow().
ClockOutGetEntry(r, u, id) ==
    LET res == clock_out_result(u, id, NULL, NULL)
    IN /\ reqs[r].pc = "idle"
       /\ SetReq(r, IF res = "ok"
                    THEN EntryReq("clock_out_select", u, id, timeEntries[id], now, "none")
                    ELSE EntryReq("done", u, id, NoRow, NULL, res))
       /\ UNCHANGED <<jobSites, timeEntries, audits, events, now, last>>

\* repository.clock_out: its select returns.  On a closed row it returns
\* None and the service raises on updated_entry.total_hours, before the
\* audit record.
ClockOutSelect(r) ==
    LET q == reqs[r]
    IN /\ q.pc = "clock_out_select"
       /\ SetReq(r, IF IsSet(timeEntries[q.entry].clock_out_time)
                    THEN Done(q, "AttributeError")
                    ELSE [q EXCEPT !.pc = "clock_out_commit",
                                   !.row = timeEntries[q.entry]])
       /\ UNCHANGED <<jobSites, timeEntries, audits, events, now, last>>

\* repository.clock_out: the commit writes clock_out_time, total_hours and
\* break_hours as computed from the object of the session; refresh reloads it.
ClockOutCommit(r) ==
    LET q == reqs[r]
        updated == repo_clock_out(q.row, q.at)
        row == [timeEntries[q.entry] EXCEPT !.clock_out_time = updated.clock_out_time,
                                            !.total_hours = updated.total_hours,
                                            !.break_hours = updated.break_hours]
    IN /\ q.pc = "clock_out_commit"
       /\ timeEntries' = [timeEntries EXCEPT ![q.entry] = row]
       /\ SetReq(r, [q EXCEPT !.pc = "clock_out_audit", !.row = row])
       /\ UNCHANGED <<jobSites, audits, events, now, last>>

\* create_audit_log commits the clock_out record.
ClockOutCreateAudit(r) ==
    LET q == reqs[r]
    IN /\ q.pc = "clock_out_audit"
       /\ audits' = Append(audits,
              create_audit_log(q.entry, "clock_out", [clock_out_time |-> NULL],
                               [clock_out_time |-> q.at,
                                total_hours |-> q.row.total_hours], q.user))
       /\ SetReq(r, [q EXCEPT !.pc = "clock_out_publish"])
       /\ UNCHANGED <<jobSites, timeEntries, events, now, last>>

\* event_bus.publish returns; the handler returns the entry.
ClockOutPublish(r) ==
    LET q == reqs[r]
    IN /\ q.pc = "clock_out_publish"
       /\ Room
       /\ events' = Append(events, Event("timeclock.clocked_out", q.entry, q.user))
       /\ SetReq(r, Done(q, "ok"))
       /\ UNCHANGED <<jobSites, timeEntries, audits, now, last>>

\* TimeclockService.start_break and end_break up to the call of the
\* repository: the entry exists and is the caller's.
BreakGetEntry(r, op, u, id) ==
    /\ reqs[r].pc = "idle"
    /\ SetReq(r, IF get_time_entry(id) = NoRow \/ timeEntries[id].user_id # u
                 THEN EntryReq("done", u, id, NoRow, NULL, "NotFoundOrDenied")
                 ELSE EntryReq(op \o "_select", u, id, timeEntries[id], NULL, "none"))
    /\ UNCHANGED <<jobSites, timeEntries, audits, events, now, last>>

\* repository.start_break: its select returns; the guard, then
\* break_start_time = utcnow() on the object.
StartBreakSelect(r) ==
    LET q == reqs[r]
    IN /\ q.pc = "start_break_select"
       /\ SetReq(r, IF can_start_break(timeEntries[q.entry])
                    THEN [q EXCEPT !.pc = "start_break_commit",
                                   !.row = timeEntries[q.entry], !.at = now]
                    ELSE Done(q, "CannotStartBreak"))
       /\ UNCHANGED <<jobSites, timeEntries, audits, events, now, last>>

\* repository.start_break: the commit writes break_start_time.
StartBreakCommit(r) ==
    LET q == reqs[r]
    IN /\ q.pc = "start_break_commit"
       /\ timeEntries' = [timeEntries EXCEPT ![q.entry].break_start_time = q.at]
       /\ SetReq(r, [q EXCEPT !.pc = "start_break_publish"])
       /\ UNCHANGED <<jobSites, audits, events, now, last>>

\* repository.end_break: its select returns; the guard, then
\* break_end_time = utcnow() on the object.
EndBreakSelect(r) ==
    LET q == reqs[r]
    IN /\ q.pc = "end_break_select"
       /\ SetReq(r, IF can_end_break(timeEntries[q.entry])
                    THEN [q EXCEPT !.pc = "end_break_commit",
                                   !.row = timeEntries[q.entry], !.at = now]
                    ELSE Done(q, "CannotEndBreak"))
       /\ UNCHANGED <<jobSites, timeEntries, audits, events, now, last>>

\* repository.end_break: the commit writes break_end_time.
EndBreakCommit(r) ==
    LET q == reqs[r]
    IN /\ q.pc = "end_break_commit"
       /\ timeEntries' = [timeEntries EXCEPT ![q.entry].break_end_time = q.at]
       /\ SetReq(r, [q EXCEPT !.pc = "end_break_publish"])
       /\ UNCHANGED <<jobSites, audits, events, now, last>>

\* event_bus.publish of break_started or break_ended returns.
BreakPublish(r) ==
    LET q == reqs[r]
    IN /\ q.pc \in {"start_break_publish", "end_break_publish"}
       /\ Room
       /\ events' = Append(events,
              Event(IF q.pc = "start_break_publish" THEN "timeclock.break_started"
                    ELSE "timeclock.break_ended", q.entry, q.user))
       /\ SetReq(r, Done(q, "ok"))
       /\ UNCHANGED <<jobSites, timeEntries, audits, now, last>>

\* The calls of SpecOut: one worker clocks in and may start a break, then
\* two requests at a time work on the entry.
NextOut ==
    \/ Tick
    \/ \E tok \in TokenInputs : ClockIn("u1", tok, NULL, NULL)
    \/ \E id \in EntryIds : StartBreak("u1", id)
    \/ \E r \in Reqs, id \in EntryIds : ClockOutGetEntry(r, "u1", id)
    \/ \E r \in Reqs : ClockOutSelect(r)
    \/ \E r \in Reqs : ClockOutCommit(r)
    \/ \E r \in Reqs : ClockOutCreateAudit(r)
    \/ \E r \in Reqs : ClockOutPublish(r)
    \/ \E r \in Reqs, op \in {"start_break", "end_break"}, id \in EntryIds :
          BreakGetEntry(r, op, "u1", id)
    \/ \E r \in Reqs : StartBreakSelect(r)
    \/ \E r \in Reqs : StartBreakCommit(r)
    \/ \E r \in Reqs : EndBreakSelect(r)
    \/ \E r \in Reqs : EndBreakCommit(r)
    \/ \E r \in Reqs : BreakPublish(r)

SpecOut == InitClock /\ [][NextOut]_vars

\* ------------------------------------------------------------ request bodies
\* The bounds of Field(..., ge=10, le=1000) on radius_meters.
MinRadius == 10
MaxRadius == 1000

\* The radius a create body carries: none, or an integer at and around the
\* bounds.  (JSON null is not an int and is refused like a radius out of
\* bounds.)
NoRadius == [name |-> "A"]
CreateBodies == {NoRadius} \cup {[name |-> "A", radius_meters |-> r] : r \in {9, 10, 1000, 1001, NULL}}

\* The bodies of an update: a radius at and around the bounds, JSON null,
\* or the active flag alone.
UpdateBodies ==
    {[radius_meters |-> r] : r \in {9, 10, 1000, 1001, NULL}} \cup {[is_active |-> FALSE]}

\* What parsing yields for a body that fails validation (a 422 response).
Invalid == [error |-> "value_error"]

\* JobSiteCreate: radius_meters: int = Field(100, ge=10, le=1000).  The
\* value of the parsed model, or Invalid.
JobSiteCreate(body) ==
    IF "radius_meters" \notin DOMAIN body
    THEN [name |-> body.name, radius_meters |-> DefaultRadius]
    ELSE IF body.radius_meters = NULL THEN Invalid
    ELSE IF body.radius_meters >= MinRadius /\ body.radius_meters <= MaxRadius THEN body
    ELSE Invalid

\* JobSiteUpdate: radius_meters: Optional[int] = Field(None, ge=10, le=1000).
\* None is a value of Optional[int]; the bounds apply to an int.
JobSiteUpdate(body) ==
    IF "radius_meters" \notin DOMAIN body THEN body
    ELSE IF body.radius_meters = NULL THEN body
    ELSE IF body.radius_meters >= MinRadius /\ body.radius_meters <= MaxRadius THEN body
    ELSE Invalid

\* POST /job-sites: the body is parsed, then TimeclockService.create_job_site
\* stores JobSite(**job_site_data.dict(), ...).  (The role dependency of the
\* endpoint is the subject of SpecRole and is left out here.)
PostJobSite(body, lat, lng, by) ==
    LET data == JobSiteCreate(body)
        id == Len(jobSites) + 1
    IN IF data = Invalid
       THEN /\ last' = Call("create_job_site", by, NoRow, NoToken, NoRow, lat, lng, "ValidationError")
            /\ UNCHANGED <<jobSites, timeEntries, audits, events, now, reqs>>
       ELSE /\ Room
            /\ Len(jobSites) < MaxSites
            /\ jobSites' = Append(jobSites,
                   [name |-> data.name, latitude |-> lat, longitude |-> lng,
                    radius_meters |-> data.radius_meters,
                    qr_code_data |-> generate_qr_code_data(data.name, id),
                    is_active |-> TRUE, created_by_id |-> by])
            /\ events' = Append(events, Event("timeclock.job_site.created", id, by))
            /\ last' = Call("create_job_site", by, NoRow, NoToken, id, lat, lng, "ok")
            /\ UNCHANGED <<timeEntries, audits, now, reqs>>

\* PUT /job-sites/{id}: the body is parsed, then
\* TimeclockService.update_job_site sets every field the body carries.
PutJobSite(id, body, by) ==
    LET data == JobSiteUpdate(body)
    IN IF data = Invalid
       THEN /\ last' = Call("update_job_site", by, NoRow, NoToken, id, NULL, NULL, "ValidationError")
            /\ UNCHANGED <<jobSites, timeEntries, audits, events, now, reqs>>
       ELSE UpdateJobSite(id, data, by)

\* The calls of SpecBody: job sites are created and updated with the bodies
\* above.
NextBody ==
    \/ Tick
    \/ \E body \in CreateBodies, c \in SiteCoords, by \in Approvers :
          PostJobSite(body, c[1], c[2], by)
    \/ \E id \in SiteIds, body \in UpdateBodies, by \in Approvers :
          PutJobSite(id, body, by)

SpecBody == Init /\ [][NextBody]_vars

\* The positions of SpecSelf, for job sites and for requests alike: two
\* points 111 m apart (outside a radius of 10 or 100 m, inside one of 1000).
SelfCoords == {<<1, 1>>, <<2, 1>>}

\* The bodies of SpecSelf: no radius, and the two bounds.
SelfBodies == {NoRadius, [name |-> "A", radius_meters |-> MinRadius],
               [name |-> "A", radius_meters |-> MaxRadius]}

\* The calls of SpecSelf: job sites of every allowed kind of radius, and one
\* worker who clocks in and out from the positions of the sites.
NextSelf ==
    \/ \E body \in SelfBodies, c \in SelfCoords : PostJobSite(body, c[1], c[2], "a1")
    \/ \E tok \in TokenInputs, c \in SelfCoords : ClockIn("u1", tok, c[1], c[2])
    \/ \E id \in EntryInputs, c \in SelfCoords : ClockOut("u1", id, c[1], c[2])

SpecSelf == Init /\ [][NextSelf]_vars

\* The calls of SpecLeave: one worker clocks in, takes breaks and clocks out
\* with and without coordinates while the job site is updated and
\* deactivated, on a database that holds one job site.
NextLeave ==
    \/ Tick
    \/ \E tok \in TokenInputs : ClockIn("u1", tok, NULL, NULL)
    \/ \E id \in EntryIds : StartBreak("u1", id)
    \/ \E id \in EntryIds : EndBreak("u1", id)
    \/ \E id \in EntryIds, c \in ReqCoords : ClockOut("u1", id, c[1], c[2])
    \/ \E id \in SiteIds, patch \in Patches, by \in Approvers : UpdateJobSite(id, patch, by)
    \/ \E id \in SiteIds, by \in Approvers : DeleteJobSite(id, by)

SpecLeave == InitClock /\ [][NextLeave]_vars

\* ------------------------------------------------------------ stats
\* TimeclockRepository.get_timeclock_stats: the three counts (the sums of
\* hours of the day and of the week are left out).
get_timeclock_stats ==
    [total_employees_clocked_in |->
        Cardinality({i \in EntryIds : timeEntries[i].clock_out_time = NULL}),
     total_active_job_sites |->
        Cardinality({i \in SiteIds : jobSites[i].is_active}),
     pending_approvals |->
        Cardinality({i \in EntryIds : /\ timeEntries[i].clock_out_time # NULL
                                      /\ timeEntries[i].is_approved = FALSE})]

\* ============================================================ properties
\* The state of a user in the entry lifecycle (spec 4.4).
OpenBreak(e) == IsSet(e.break_start_time) /\ ~IsSet(e.break_end_time)

UserState(u) ==
    IF ActiveRows(u) = {} THEN "Idle"
    ELSE IF \E i \in ActiveRows(u) : OpenBreak(timeEntries[i]) THEN "OnBreak"
    ELSE "Working"

\* The rows of timeEntries before the step are the same rows after it.
EntriesKept == SubSeq(timeEntries', 1, Len(timeEntries)) = timeEntries

\* The step is a call of the service method, with the arguments that last'
\* records (every call records its own arguments, so these are the only
\* arguments the step can be a call with).
ClockInStep == last'.op = "clock_in" /\ ClockIn(last'.user, last'.tok, last'.lat, last'.lng)

ClockOutStep ==
    last'.op = "clock_out" /\ ClockOut(last'.user, last'.entry, last'.lat, last'.lng)

StartBreakStep == last'.op = "start_break" /\ StartBreak(last'.user, last'.entry)

EndBreakStep == last'.op = "end_break" /\ EndBreak(last'.user, last'.entry)

Present(x) == x # NULL

\* The geofence rule of the specification: both sides carry both
\* coordinates and the distance exceeds the radius.
OutOfRange(lat, lng, site) ==
    /\ Present(lat) /\ Present(lng)
    /\ Present(site.latitude) /\ Present(site.longitude)
    /\ calculate_distance_sq(lat, lng, site.latitude, site.longitude)
         > site.radius_meters * site.radius_meters

ApproveStep ==
    /\ last'.op \in {"approve", "reject"}
    /\ ApproveTimeEntry(last'.entry, last'.op = "approve", last'.user)

\* The entry is closed: its clock-out is set.
Closed(e) == IsSet(e.clock_out_time)

SpanSeconds(e) == (e.clock_out_time - e.clock_in_time) * SecondsPerTick

\* The break duration of the specification, in seconds: break_end -
\* break_start when both are set, otherwise 0.
BreakSeconds(e) ==
    IF IsSet(e.break_start_time) /\ IsSet(e.break_end_time)
    THEN (e.break_end_time - e.break_start_time) * SecondsPerTick
    ELSE 0

\* The stored break hours, an unset column counting as 0.
BreakHours(e) == IF e.break_hours = NULL THEN 0 ELSE e.break_hours

Approval(e) == <<e.is_approved, e.approved_by_id, e.approved_at>>

AuditAction(op) ==
    CASE op = "clock_in" -> "clock_in"
      [] op = "start_break" -> "break_start"
      [] op = "end_break" -> "break_end"
      [] op = "clock_out" -> "clock_out"
      [] op = "approve" -> "approve"
      [] op = "reject" -> "reject"

\* The step is a call of one of the six operations on a time entry.
EntryOperationStep ==
    ClockInStep \/ StartBreakStep \/ EndBreakStep \/ ClockOutStep \/ ApproveStep

AuditRank(action) ==
    CASE action = "clock_in" -> 1
      [] action \in {"break_start", "break_end"} -> 2
      [] action = "clock_out" -> 3
      [] action \in {"approve", "reject"} -> 4

C19_AuditAppendOnly ==
    [][/\ Len(audits') >= Len(audits)
       /\ SubSeq(audits', 1, Len(audits)) = audits]_vars

\* The log of an entry that was clocked in, clocked out and then approved
\* or rejected still holds its first two records under the third.
C19_Witness ==
    /\ Len(audits) >= 3
    /\ last.op \in {"approve", "reject"} /\ last.result = "ok"
    /\ audits[Len(audits)].action = last.op
    /\ \E j, k \in 1..(Len(audits) - 1) :
          /\ j < k
          /\ audits[j].time_entry_id = last.entry /\ audits[j].action = "clock_in"
          /\ audits[j].new_values.clock_in_time = timeEntries[last.entry].clock_in_time
          /\ audits[k].time_entry_id = last.entry /\ audits[k].action = "clock_out"

\* The active job sites that hold a token.
ActiveHolders(tok) ==
    {j \in SiteIds : jobSites[j].qr_code_data = tok /\ jobSites[j].is_active}

TokensUnique ==
    \A i, j \in SiteIds : i # j => jobSites[i].qr_code_data # jobSites[j].qr_code_data

AdminOps == {"create_job_site", "update_job_site", "delete_job_site", "approve", "reject"}

\* C22: a caller with the admin or superadmin role is let through to
\* approve, reject, create, update and deactivate, and a caller with the
\* ordinary role is refused on each of them with no state change.
C22_RoleGate ==
    [][(last'.op \in AdminOps /\ (last' # last \/ events' # events))
       => IF RoleOf[last'.user] \in {"admin", "superadmin"}
          THEN last'.result # "Forbidden"
          ELSE /\ last'.result = "Forbidden"
               /\ UNCHANGED <<jobSites, timeEntries, audits, events>>]_vars

ScanStep == last'.op = "scan" /\ Scan(last'.tok, last'.user)

\* C24: scan is read-only: a scan, whatever the token and the user, leaves
\* job sites, time entries and audit records unchanged and publishes no
\* event.
C24_ScanReadOnly ==
    [][ScanStep => UNCHANGED <<jobSites, timeEntries, audits, events>>]_vars

\* A user with an open entry has scanned the token of a job site.
C24_Witness ==
    /\ last.op = "scan" /\ last.result = "can_clock_out"
    /\ ActiveRows(last.user) = {last.entry}

History(e) ==
    <<e.user_id, e.job_site_id, e.clock_in_time, e.clock_out_time,
      e.break_start_time, e.break_end_time, e.total_hours, e.break_hours>>

AuditsOf(i, action) ==
    {k \in 1..Len(audits) : audits[k].time_entry_id = i /\ audits[k].action = action}

EventsOf(i, topic) ==
    {k \in 1..Len(events) : events[k].id = i /\ events[k].topic = topic}

EntryOps == {"clock_in", "start_break", "end_break", "clock_out", "approve", "reject"}

EventTopic(op) ==
    CASE op = "clock_in" -> "timeclock.clocked_in"
      [] op = "start_break" -> "timeclock.break_started"
      [] op = "end_break" -> "timeclock.break_ended"
      [] op = "clock_out" -> "timeclock.clocked_out"
      [] op = "approve" -> "timeclock.time_entry.approved"
      [] op = "reject" -> "timeclock.time_entry.rejected"

\* The mutation of op is visible on the persisted entry.
Persisted(i, op) ==
    /\ i \in EntryIds
    /\ op = "start_break" => IsSet(timeEntries[i].break_start_time)
    /\ op = "end_break" => IsSet(timeEntries[i].break_end_time)
    /\ op = "clock_out" => Closed(timeEntries[i])
    /\ op \in {"approve", "reject"} => timeEntries[i].approved_by_id # NoUser

\* A successful call appends one event of the matching topic, a failed call
\* none.
OneEventPerOperation ==
    EntryOperationStep
       => IF last'.result = "ok"
          THEN events' = Append(events, Event(EventTopic(last'.op), last'.entry, last'.user))
          ELSE events' = events

\* Every event published about an entry follows the mutation, and the events
\* of an operation on an entry never outnumber its audit records.
EventAfterMutationAndAudit(ops) ==
    \A op \in ops :
       /\ \A k \in 1..Len(events) :
             events[k].topic = EventTopic(op) => Persisted(events[k].id, op)
       /\ \A i \in EntryIds :
             Cardinality(EventsOf(i, EventTopic(op))) <= Cardinality(AuditsOf(i, AuditAction(op)))

DeleteJobSiteStep ==
    last'.op = "delete_job_site" /\ DeleteJobSite(last'.site, last'.user)

RadiusInBounds ==
    \A i \in SiteIds :
        /\ jobSites[i].radius_meters # NULL
        /\ jobSites[i].radius_meters >= MinRadius
        /\ jobSites[i].radius_meters <= MaxRadius

\* The radius of a body is an integer outside the bounds.
RadiusOutOfBounds(body) ==
    /\ "radius_meters" \in DOMAIN body
    /\ body.radius_meters # NULL
    /\ body.radius_meters < MinRadius \/ body.radius_meters > MaxRadius

AtSite(site) ==
    /\ Present(last'.lat) /\ Present(last'.lng)
    /\ last'.lat = jobSites[site].latitude
    /\ last'.lng = jobSites[site].longitude

\* C35: a clock-in or clock-out from exactly the coordinates of the job site
\* is never rejected as OutOfRange, whatever the radius of the site.
C35_SelfWithinRadius ==
    [][/\ (/\ ClockInStep
           /\ get_job_site_by_qr_code(last'.tok) # NoRow
           /\ AtSite(get_job_site_by_qr_code(last'.tok)))
          => last'.result # "OutOfRange"
       /\ (/\ ClockOutStep
           /\ last'.entry \in EntryIds
           /\ AtSite(timeEntries[last'.entry].job_site_id))
          => last'.result # "OutOfRange"]_vars

\* A clock-in from the position of a site of the smallest radius was
\* accepted.
C35_Witness ==
    /\ last.op = "clock_in" /\ last.result = "ok"
    /\ jobSites[last.site].radius_meters = MinRadius
    /\ Truthy(last.lat) /\ Truthy(last.lng)
    /\ last.lat = jobSites[last.site].latitude
    /\ last.lng = jobSites[last.site].longitude

====
